---- MODULE Spec2Model ----
(***************************************************************************)
(* MPipe: stages of worker processes connected by tubes.                   *)
(*                                                                         *)
(* A pipeline is a graph of stages.  Every stage owns one input tube and   *)
(* a list of output tubes (the input tubes of its downstream stages, or    *)
(* one terminal tube when it is a leaf).  Build starts the workers of      *)
(* every stage; each worker is a process running OrderedWorker.run or      *)
(* UnorderedWorker.run.  One step of the model is one statement of a       *)
(* worker (a lock operation, one tube.put, one tube.get, one doTask), one  *)
(* Pipeline.put of the producer, or one tube.get of the consumer that      *)
(* iterates Pipeline.results().                                            *)
(*                                                                         *)
(* A tube is a FIFO of envelopes <<payload, count>>; put appends and get   *)
(* removes the head, each atomically.                                      *)
(***************************************************************************)
EXTENDS Integers, Sequences, FiniteSets, TLC

\* ---------------------------------------------------------------- bounds
\* Number of tasks the producer may put before the stop request.
MaxTasks == 2
\* Largest pool size of a single-stage pipeline.
MaxWorkers == 3
\* Largest pool size of the first stage of a chain or of a fan-out root.
MaxPipeWorkers == 2
\* Number of failing reads of an input tube in one run.
MaxFail == 1

\* The "stop" request: the payload None (mpipe.py: `if task is None`).
NONE == 0

\* ------------------------------------------------------- stage graph
\* Stage.__init__: a stage of `size` workers of class `worker_class`
\* ("Ordered" or "Unordered"), nothing linked yet.  `target` names the
\* function the stage runs as doTask.
Stage(worker_class, target, size) ==
  [worker_class |-> worker_class, target |-> target, size |-> size,
   next_stages |-> <<>>]

\* Stage.link: stage a gets stage b as a downstream stage (b's input tube
\* becomes an output tube of a, in link order).
link(g, a, b) == [g EXCEPT ![a].next_stages = Append(@, b)]

WorkerClasses == {"Ordered", "Unordered"}

\* The functions a stage may run.  "one": return a result for every task.
\* "skipodd": return None without publishing for odd tasks, a result
\* otherwise.  "twice": call putResult twice and return None.
Targets == {"one", "skipodd", "twice"}

\* A pipeline of one stage.
SingleStage(c, t, n) == << Stage(c, t, n) >>

\* stage 1 -> stage 2.
Chain(c1, n1, c2, n2) ==
  link(<< Stage(c1, "one", n1), Stage(c2, "one", n2) >>, 1, 2)

\* stage 1 -> stage 2, stage 1 -> stage 3.
FanOut(c1, t1, n1, c2, t2) ==
  link(link(<< Stage(c1, t1, n1), Stage(c2, t2, 1), Stage(c2, "one", 1) >>,
            1, 2), 1, 3)

\* stage 1 -> {2, 3} -> stage 4: stage 4 has two upstream stages.
Diamond(c4) ==
  link(link(link(link(
    << Stage("Unordered", "one", 1), Stage("Unordered", "one", 1),
       Stage("Unordered", "one", 1), Stage(c4, "one", 1) >>,
    1, 2), 1, 3), 2, 4), 3, 4)

\* The pipelines of one ordered stage, and the chains of two ordered stages.
OrderedPipelines ==
       { SingleStage("Ordered", t, n) : t \in Targets, n \in 1..MaxWorkers }
  \cup { Chain("Ordered", n1, "Ordered", n2) : n1 \in 1..MaxPipeWorkers,
                                               n2 \in 1..MaxPipeWorkers }

\* The pipelines of one unordered stage.
UnorderedPipelines ==
  { SingleStage("Unordered", t, n) : t \in Targets, n \in 1..MaxWorkers }

\* A root of either class feeding two unordered leaves.
FanOutPipelines ==
  { FanOut(c1, t1, n1, "Unordered", "one") : c1 \in WorkerClasses,
                                             t1 \in {"one", "skipodd"},
                                             n1 \in 1..MaxPipeWorkers }

\* Every tree-shaped pipeline of the model: one stage, two in a chain, a root
\* with two leaves.
TreePipelines ==
       OrderedPipelines
  \cup UnorderedPipelines
  \cup { Chain(c1, n1, c2, n2) : c1 \in WorkerClasses, n1 \in 1..MaxPipeWorkers,
                                 c2 \in WorkerClasses, n2 \in 1..MaxPipeWorkers }
  \cup { FanOut(c1, "one", n1, c2, t2) : c1 \in WorkerClasses, n1 \in 1..MaxPipeWorkers,
                                  c2 \in WorkerClasses, t2 \in {"one", "skipodd"} }

\* The pipelines of one stage of either class.
StagePipelines ==
  { SingleStage(c, t, n) : c \in WorkerClasses, t \in Targets, n \in 1..MaxWorkers }

DiamondPipelines == { Diamond(c4) : c4 \in WorkerClasses }

\* Pipelines with a stage constructed with size = 0: as the root, or as the
\* leaf of a chain.
ZeroSizePipelines ==
       { SingleStage(c, "one", 0) : c \in WorkerClasses }
  \cup { Chain(c1, n1, c2, 0) : c1 \in WorkerClasses, n1 \in 1..MaxPipeWorkers,
                                c2 \in WorkerClasses }

VARIABLES
  stages,       \* the stage graph the pipeline was built from (root: stage 1)
  tube,         \* tube[t]: the envelopes on tube t, oldest first
  hist,         \* hist[t]: every envelope a stage or the producer put on t
  pc,           \* pc[s][w]: where worker w of stage s is in run()
  task,         \* task[s][w]: payload of the envelope the worker holds
  count,        \* count[s][w]: count of the envelope the worker holds
  todo,         \* todo[s][w]: putResult calls the current doTask still makes
  oidx,         \* oidx[s][w]: position of the worker's loop over output tubes
  lock_input,   \* lock_input[s][w]: worker w's _lock_prev_input is held
  lock_output,  \* lock_output[s][w]: worker w's _lock_prev_output is held
  nput,         \* tasks the producer has put
  stopped,      \* the producer has put the stop request
  nfail,        \* failed reads so far
  cpos,         \* consumer: position in the list of leaf output tubes
  yielded,      \* consumer: the values results() has yielded
  closed,       \* consumer: results() has ended
  output_stages, \* Pipeline._output_stages, set by Pipeline.__init__
  timed         \* consumer: << outcome, result >> of the last get(timeout)

vars == << stages, tube, hist, pc, task, count, todo, oidx, lock_input,
           lock_output, nput, stopped, nfail, cpos, yielded, closed,
           output_stages, timed >>

NumStages == Len(stages)
StageIds == 1..NumStages

\* ------------------------------------------------------------- tubes
\* Stage s's _input_tube is tube s; the terminal tube that build gives a
\* leaf s is tube NumStages + s.
InputTube(s) == s
TerminalTube(s) == NumStages + s
TubeIds == 1..(2 * NumStages)

\* Stage._output_tubes after build: the downstream input tubes in link
\* order, or the one terminal tube of a leaf.
OutputTubes(s) ==
  IF stages[s].next_stages = <<>>
    THEN << TerminalTube(s) >>
    ELSE [i \in 1..Len(stages[s].next_stages) |-> InputTube(stages[s].next_stages[i])]

\* TubeP.put / TubeQ.put: the tubes after `env` is put on tube t.
Put(tb, t, env) == [tb EXCEPT ![t] = Append(@, env)]

\* TubeP.get / TubeQ.get without timeout: enabled when an item is there.
CanGet(t) == tube[t] # <<>>

\* ------------------------------------------------------------- build
RECURSIVE SumSeq(_)
SumSeq(q) == IF q = <<>> THEN 0 ELSE Head(q) + SumSeq(Tail(q))

\* Stage.build on stage s: how many times it runs build (and so assemble)
\* on stage t.  build recurses into every downstream stage, once per link.
RECURSIVE build(_, _)
build(s, t) ==
  (IF s = t THEN 1 ELSE 0)
  + SumSeq([i \in 1..Len(stages[s].next_stages) |-> build(stages[s].next_stages[i], t)])

\* Workers started on stage s by Pipeline.__init__ (build of the root).
NumWorkers(s) == build(1, s) * stages[s].size
Workers(s) == 0..(NumWorkers(s) - 1)

\* Stage.getLeaves: the leaves below s, one entry per path, in DFS order.
RECURSIVE getLeaves(_)
RECURSIVE LeavesOf(_)
getLeaves(s) ==
  IF stages[s].next_stages = <<>> THEN << s >> ELSE LeavesOf(stages[s].next_stages)
LeavesOf(q) == IF q = <<>> THEN <<>> ELSE getLeaves(Head(q)) \o LeavesOf(Tail(q))

\* Pipeline._output_stages and the tubes one Pipeline.get reads, in order.
RECURSIVE TubesOf(_)
TubesOf(q) == IF q = <<>> THEN <<>> ELSE OutputTubes(Head(q)) \o TubesOf(Tail(q))
LeafTubes == TubesOf(output_stages)

\* ------------------------------------------------------ ordered ring
\* assemble: each call creates `size` workers and links worker ii-1 to worker
\* ii.  Worker w belongs to the ring of its assemble call.
IsOrdered(s) == stages[s].worker_class = "Ordered"
RingIndex(s, w) == w % stages[s].size
NextWorker(s, w) == (w - RingIndex(s, w)) + ((RingIndex(s, w) + 1) % stages[s].size)

\* _link without its two `lock.acquire()` calls: every lock starts released.
LinkedHeld_NeverAcquired(s, w) == FALSE

\* _link: both locks between two neighbours are created acquired; the
\* locks in front of worker 0 (next_is_first) are released at once.
LinkedHeld(s, w) == RingIndex(s, w) # 0

\* ------------------------------------------------------------ doTask
\* The value stage s computes for task x.
Result(s, x) == s * x + 1

\* How many times doTask of `target` publishes for task x (putResult calls,
\* or the one made by run() for a returned result).
NumResults(target, x) ==
  CASE target = "one"     -> 1
    [] target = "skipodd" -> IF x % 2 = 1 THEN 0 ELSE 1
    [] target = "twice"   -> 2

\* -------------------------------------------------------------- Init
InitWith(pipelines) ==
  /\ stages \in pipelines
  /\ tube = [t \in TubeIds |-> <<>>]
  /\ hist = [t \in TubeIds |-> <<>>]
  /\ pc = [s \in StageIds |->
             [w \in Workers(s) |-> IF IsOrdered(s) THEN "acquire_input" ELSE "get"]]
  /\ task = [s \in StageIds |-> [w \in Workers(s) |-> NONE]]
  /\ count = [s \in StageIds |-> [w \in Workers(s) |-> 0]]
  /\ todo = [s \in StageIds |-> [w \in Workers(s) |-> 0]]
  /\ oidx = [s \in StageIds |-> [w \in Workers(s) |-> 1]]
  /\ lock_input = [s \in StageIds |-> [w \in Workers(s) |-> IsOrdered(s) /\ LinkedHeld(s, w)]]
  /\ lock_output = [s \in StageIds |-> [w \in Workers(s) |-> IsOrdered(s) /\ LinkedHeld(s, w)]]
  /\ nput = 0
  /\ stopped = FALSE
  /\ nfail = 0
  /\ cpos = 1
  /\ yielded = <<>>
  /\ closed = FALSE
  /\ output_stages = getLeaves(1)
  /\ timed = << "none", NONE >>

Set(f, s, w, v) == [f EXCEPT ![s][w] = v]

\* ---------------------------------------------------------- producer
\* Pipeline.put(task) -> Stage.put: (task, 0) on the root's input tube.
PipelinePut ==
  /\ ~stopped
  /\ nput < MaxTasks
  /\ nput' = nput + 1
  /\ tube' = Put(tube, InputTube(1), << nput + 1, 0 >>)
  /\ hist' = Put(hist, InputTube(1), << nput + 1, 0 >>)
  /\ UNCHANGED << stages, pc, task, count, todo, oidx, lock_input, lock_output,
                  stopped, nfail, cpos, yielded, closed, output_stages, timed >>

\* Pipeline.put(None): the stop request, put once, after the tasks.
PipelineStop ==
  /\ ~stopped
  /\ stopped' = TRUE
  /\ tube' = Put(tube, InputTube(1), << NONE, 0 >>)
  /\ hist' = Put(hist, InputTube(1), << NONE, 0 >>)
  /\ UNCHANGED << stages, pc, task, count, todo, oidx, lock_input, lock_output,
                  nput, nfail, cpos, yielded, closed, output_stages, timed >>

\* ---------------------------------------------------------- consumer
\* Pipeline.results(): get() reads one envelope from every output tube of
\* every leaf, in order, and keeps the last payload; None ends the
\* iteration, any other value is yielded.  One step is one tube.get().
PipelineGet ==
  /\ ~closed
  /\ CanGet(LeafTubes[cpos])
  /\ tube' = [tube EXCEPT ![LeafTubes[cpos]] = Tail(@)]
  /\ IF cpos < Len(LeafTubes)
       THEN /\ cpos' = cpos + 1
            /\ UNCHANGED << yielded, closed >>
       ELSE /\ cpos' = 1
            /\ IF Head(tube[LeafTubes[cpos]])[1] = NONE
                 THEN closed' = TRUE /\ UNCHANGED yielded
                 ELSE yielded' = Append(yielded, Head(tube[LeafTubes[cpos]])[1])
                      /\ UNCHANGED closed
  /\ UNCHANGED << stages, hist, pc, task, count, todo, oidx, lock_input,
                  lock_output, nput, stopped, nfail, output_stages, timed >>

\* The class of tube t: Stage.__init__ creates the input tube and build
\* creates the terminal tube from the stage's getTubeClass() (TubeP for an
\* ordered stage, TubeQ for an unordered one).
TubeClass(t) ==
  IF stages[IF t <= NumStages THEN t ELSE t - NumStages].worker_class = "Ordered"
    THEN "TubeP" ELSE "TubeQ"

\* TubeP.get(timeout) / TubeQ.get(timeout) on tube t: what the call comes
\* back with.  An item that is there is received.  On an empty tube TubeP's
\* poll() is false and the call returns (False, None); TubeQ's queue.get
\* raises Empty, and matching it evaluates multiprocessing.Queue.Empty,
\* which raises AttributeError out of the call.
TubeGetTimeout(t) ==
  IF CanGet(t) THEN << "value", Head(tube[t])[1] >>
  ELSE IF TubeClass(t) = "TubeP" THEN << "timeout", NONE >>
  ELSE << "error", NONE >>

\* Pipeline.get(timeout): Stage.get(timeout) of every leaf, each one
\* tube.get(timeout) per output tube; the last (valid, result) is returned.
\* One step is one tube.get(timeout); an error ends the call.
PipelineGetTimeout ==
  /\ timed' = TubeGetTimeout(LeafTubes[cpos])
  /\ tube' = IF CanGet(LeafTubes[cpos])
               THEN [tube EXCEPT ![LeafTubes[cpos]] = Tail(@)] ELSE tube
  /\ cpos' = IF cpos < Len(LeafTubes) /\ timed'[1] # "error" THEN cpos + 1 ELSE 1
  /\ UNCHANGED << stages, hist, pc, task, count, todo, oidx, lock_input,
                  lock_output, nput, stopped, nfail, yielded, closed, output_stages >>

\* What a worker step leaves alone: the graph, the producer, the consumer.
outside == << stages, nput, stopped, cpos, yielded, closed, output_stages, timed >>

\* ---------------------------------------------------- OrderedWorker
\* The read of the input tube without waiting for the previous worker's
\* permission.
OrderedWorker_acquire_input_NoWait(s, w) ==
  /\ IsOrdered(s)
  /\ pc[s][w] = "acquire_input"
  /\ lock_input' = Set(lock_input, s, w, TRUE)
  /\ pc' = Set(pc, s, w, "get")
  /\ UNCHANGED << tube, hist, task, count, todo, oidx, lock_output, nfail, outside >>

\* run: self._lock_prev_input.acquire()
OrderedWorker_acquire_input(s, w) ==
  /\ IsOrdered(s)
  /\ pc[s][w] = "acquire_input"
  /\ ~lock_input[s][w]
  /\ lock_input' = Set(lock_input, s, w, TRUE)
  /\ pc' = Set(pc, s, w, "get")
  /\ UNCHANGED << tube, hist, task, count, todo, oidx, lock_output, nfail, outside >>

\* The read that keeps the input token while the task is worked on: the
\* release of _lock_next_input is left out.
OrderedWorker_get_KeepsToken(s, w) ==
  /\ IsOrdered(s)
  /\ pc[s][w] = "get"
  /\ CanGet(InputTube(s))
  /\ tube' = [tube EXCEPT ![InputTube(s)] = Tail(@)]
  /\ task' = Set(task, s, w, Head(tube[InputTube(s)])[1])
  /\ count' = Set(count, s, w, Head(tube[InputTube(s)])[2])
  /\ pc' = Set(pc, s, w, IF Head(tube[InputTube(s)])[1] = NONE THEN "stop" ELSE "doTask")
  /\ UNCHANGED << hist, todo, oidx, lock_input, lock_output, nfail, outside >>

\* run: (task, count) = self._tube_task_input.get()
OrderedWorker_get(s, w) ==
  /\ IsOrdered(s)
  /\ pc[s][w] = "get"
  /\ CanGet(InputTube(s))
  /\ tube' = [tube EXCEPT ![InputTube(s)] = Tail(@)]
  /\ task' = Set(task, s, w, Head(tube[InputTube(s)])[1])
  /\ count' = Set(count, s, w, Head(tube[InputTube(s)])[2])
  /\ pc' = Set(pc, s, w, "release_input")
  /\ UNCHANGED << hist, todo, oidx, lock_input, lock_output, nfail, outside >>

\* run: the read raises; `except: (task, count) = (None, 0)`.  The release
\* of _lock_next_input, inside the try block after the read, is skipped.
OrderedWorker_get_fails(s, w) ==
  /\ IsOrdered(s)
  /\ pc[s][w] = "get"
  /\ nfail < MaxFail
  /\ nfail' = nfail + 1
  /\ task' = Set(task, s, w, NONE)
  /\ count' = Set(count, s, w, 0)
  /\ pc' = Set(pc, s, w, "stop")
  /\ UNCHANGED << tube, hist, todo, oidx, lock_input, lock_output, outside >>

\* The release of the worker's own _lock_prev_input in place of
\* _lock_next_input.
OrderedWorker_release_input_Own(s, w) ==
  /\ IsOrdered(s)
  /\ pc[s][w] = "release_input"
  /\ lock_input' = Set(lock_input, s, w, FALSE)
  /\ pc' = Set(pc, s, w, IF task[s][w] = NONE THEN "stop" ELSE "doTask")
  /\ UNCHANGED << tube, hist, task, count, todo, oidx, lock_output, nfail, outside >>

\* run: self._lock_next_input.release(), then `if task is None`.
OrderedWorker_release_input(s, w) ==
  /\ IsOrdered(s)
  /\ pc[s][w] = "release_input"
  /\ lock_input' = Set(lock_input, s, NextWorker(s, w), FALSE)
  /\ pc' = Set(pc, s, w, IF task[s][w] = NONE THEN "stop" ELSE "doTask")
  /\ UNCHANGED << tube, hist, task, count, todo, oidx, lock_output, nfail, outside >>

\* The stop branch that puts the stop request back with the count it was
\* read with.
OrderedWorker_stop_NoIncrement(s, w) ==
  /\ IsOrdered(s)
  /\ pc[s][w] = "stop"
  /\ count' = Set(count, s, w, count[s][w] + 1)
  /\ IF count[s][w] + 1 = stages[s].size
       THEN /\ pc' = Set(pc, s, w, "propagate")
            /\ oidx' = Set(oidx, s, w, 1)
            /\ UNCHANGED tube
       ELSE /\ tube' = Put(tube, InputTube(s), << NONE, count[s][w] >>)
            /\ pc' = Set(pc, s, w, "exit")
            /\ UNCHANGED oidx
  /\ UNCHANGED << hist, task, todo, lock_input, lock_output, nfail, outside >>

\* run, stop branch: count += 1; the worker that makes count reach
\* _num_workers goes on to propagate the stop, any other puts
\* (None, count) back on the input tube and exits.
OrderedWorker_stop(s, w) ==
  /\ IsOrdered(s)
  /\ pc[s][w] = "stop"
  /\ count' = Set(count, s, w, count[s][w] + 1)
  /\ IF count[s][w] + 1 = stages[s].size
       THEN /\ pc' = Set(pc, s, w, "propagate")
            /\ oidx' = Set(oidx, s, w, 1)
            /\ UNCHANGED tube
       ELSE /\ tube' = Put(tube, InputTube(s), << NONE, count[s][w] + 1 >>)
            /\ pc' = Set(pc, s, w, "exit")
            /\ UNCHANGED oidx
  /\ UNCHANGED << hist, task, todo, lock_input, lock_output, nfail, outside >>

\* run: `for tube in self._tubes_result_output: tube.put((None, 0))`, one
\* put per step, without the output locks; then break.
OrderedWorker_propagate(s, w) ==
  /\ IsOrdered(s)
  /\ pc[s][w] = "propagate"
  /\ tube' = Put(tube, OutputTubes(s)[oidx[s][w]], << NONE, 0 >>)
  /\ hist' = Put(hist, OutputTubes(s)[oidx[s][w]], << NONE, 0 >>)
  /\ IF oidx[s][w] < Len(OutputTubes(s))
       THEN oidx' = Set(oidx, s, w, oidx[s][w] + 1) /\ UNCHANGED pc
       ELSE pc' = Set(pc, s, w, "exit") /\ UNCHANGED oidx
  /\ UNCHANGED << task, count, todo, lock_input, lock_output, nfail, outside >>

\* run: result = self.doTask(task).  The step is the user's computation; the
\* putResult calls it leads to (made by doTask itself, or by run for a
\* returned result) follow as steps of their own.
OrderedWorker_doTask(s, w) ==
  /\ IsOrdered(s)
  /\ pc[s][w] = "doTask"
  /\ todo' = Set(todo, s, w, NumResults(stages[s].target, task[s][w]))
  /\ pc' = Set(pc, s, w, IF NumResults(stages[s].target, task[s][w]) = 0
                           THEN "acquire_input" ELSE "acquire_output")
  /\ UNCHANGED << tube, hist, task, count, oidx, lock_input, lock_output, nfail, outside >>

\* putResult without waiting for the previous worker to have published.
OrderedWorker_putResult_acquire_NoWait(s, w) ==
  /\ IsOrdered(s)
  /\ pc[s][w] = "acquire_output"
  /\ lock_output' = Set(lock_output, s, w, TRUE)
  /\ oidx' = Set(oidx, s, w, 1)
  /\ pc' = Set(pc, s, w, "put")
  /\ UNCHANGED << tube, hist, task, count, todo, lock_input, nfail, outside >>

\* putResult: self._lock_prev_output.acquire()
OrderedWorker_putResult_acquire(s, w) ==
  /\ IsOrdered(s)
  /\ pc[s][w] = "acquire_output"
  /\ ~lock_output[s][w]
  /\ lock_output' = Set(lock_output, s, w, TRUE)
  /\ oidx' = Set(oidx, s, w, 1)
  /\ pc' = Set(pc, s, w, "put")
  /\ UNCHANGED << tube, hist, task, count, todo, lock_input, nfail, outside >>

\* putResult: `for tube in self._tubes_result_output: tube.put((result, count))`,
\* one put per step.
OrderedWorker_putResult_put(s, w) ==
  /\ IsOrdered(s)
  /\ pc[s][w] = "put"
  /\ tube' = Put(tube, OutputTubes(s)[oidx[s][w]], << Result(s, task[s][w]), 0 >>)
  /\ hist' = Put(hist, OutputTubes(s)[oidx[s][w]], << Result(s, task[s][w]), 0 >>)
  /\ IF oidx[s][w] < Len(OutputTubes(s))
       THEN oidx' = Set(oidx, s, w, oidx[s][w] + 1) /\ UNCHANGED pc
       ELSE pc' = Set(pc, s, w, "release_output") /\ UNCHANGED oidx
  /\ UNCHANGED << task, count, todo, lock_input, lock_output, nfail, outside >>

\* putResult: self._lock_next_output.release(); then the next putResult of
\* this doTask, or the top of the loop in run.
OrderedWorker_putResult_release(s, w) ==
  /\ IsOrdered(s)
  /\ pc[s][w] = "release_output"
  /\ lock_output' = Set(lock_output, s, NextWorker(s, w), FALSE)
  /\ todo' = Set(todo, s, w, todo[s][w] - 1)
  /\ pc' = Set(pc, s, w, IF todo[s][w] > 1 THEN "acquire_output" ELSE "acquire_input")
  /\ UNCHANGED << tube, hist, task, count, oidx, lock_input, nfail, outside >>

\* -------------------------------------------------- UnorderedWorker
\* run: (task, count) = self._tube_task_input.get(), then `if task is None`.
UnorderedWorker_get(s, w) ==
  /\ ~IsOrdered(s)
  /\ pc[s][w] = "get"
  /\ CanGet(InputTube(s))
  /\ tube' = [tube EXCEPT ![InputTube(s)] = Tail(@)]
  /\ task' = Set(task, s, w, Head(tube[InputTube(s)])[1])
  /\ count' = Set(count, s, w, Head(tube[InputTube(s)])[2])
  /\ pc' = Set(pc, s, w, IF Head(tube[InputTube(s)])[1] = NONE THEN "stop" ELSE "doTask")
  /\ UNCHANGED << hist, todo, oidx, lock_input, lock_output, nfail, outside >>

\* run: the read raises; `except: (task, count) = (None, 0)`.
UnorderedWorker_get_fails(s, w) ==
  /\ ~IsOrdered(s)
  /\ pc[s][w] = "get"
  /\ nfail < MaxFail
  /\ nfail' = nfail + 1
  /\ task' = Set(task, s, w, NONE)
  /\ count' = Set(count, s, w, 0)
  /\ pc' = Set(pc, s, w, "stop")
  /\ UNCHANGED << tube, hist, todo, oidx, lock_input, lock_output, outside >>

\* The stop branch without the aggregation: the first worker that reads the
\* stop request propagates it and exits.
UnorderedWorker_stop_NoAggregation(s, w) ==
  /\ ~IsOrdered(s)
  /\ pc[s][w] = "stop"
  /\ count' = Set(count, s, w, count[s][w] + 1)
  /\ pc' = Set(pc, s, w, "propagate")
  /\ oidx' = Set(oidx, s, w, 1)
  /\ UNCHANGED << tube, hist, task, todo, lock_input, lock_output, nfail, outside >>

\* run, stop branch: count += 1; putResult(None) when count reaches
\* _num_workers, else (None, count) back on the input tube; exit.
UnorderedWorker_stop(s, w) ==
  /\ ~IsOrdered(s)
  /\ pc[s][w] = "stop"
  /\ count' = Set(count, s, w, count[s][w] + 1)
  /\ IF count[s][w] + 1 = stages[s].size
       THEN /\ pc' = Set(pc, s, w, "propagate")
            /\ oidx' = Set(oidx, s, w, 1)
            /\ UNCHANGED tube
       ELSE /\ tube' = Put(tube, InputTube(s), << NONE, count[s][w] + 1 >>)
            /\ pc' = Set(pc, s, w, "exit")
            /\ UNCHANGED oidx
  /\ UNCHANGED << hist, task, todo, lock_input, lock_output, nfail, outside >>

\* run: self.putResult(None): (None, 0) on every output tube, one put per
\* step; then break.
UnorderedWorker_propagate(s, w) ==
  /\ ~IsOrdered(s)
  /\ pc[s][w] = "propagate"
  /\ tube' = Put(tube, OutputTubes(s)[oidx[s][w]], << NONE, 0 >>)
  /\ hist' = Put(hist, OutputTubes(s)[oidx[s][w]], << NONE, 0 >>)
  /\ IF oidx[s][w] < Len(OutputTubes(s))
       THEN oidx' = Set(oidx, s, w, oidx[s][w] + 1) /\ UNCHANGED pc
       ELSE pc' = Set(pc, s, w, "exit") /\ UNCHANGED oidx
  /\ UNCHANGED << task, count, todo, lock_input, lock_output, nfail, outside >>

\* run: result = self.doTask(task).
UnorderedWorker_doTask(s, w) ==
  /\ ~IsOrdered(s)
  /\ pc[s][w] = "doTask"
  /\ todo' = Set(todo, s, w, NumResults(stages[s].target, task[s][w]))
  /\ oidx' = Set(oidx, s, w, 1)
  /\ pc' = Set(pc, s, w, IF NumResults(stages[s].target, task[s][w]) = 0
                           THEN "get" ELSE "put")
  /\ UNCHANGED << tube, hist, task, count, lock_input, lock_output, nfail, outside >>

\* putResult: `for tube in self._tubes_result_output: tube.put((result, count))`,
\* one put per step; after the last tube, the next putResult of this doTask
\* or the top of the loop in run.
UnorderedWorker_putResult_put(s, w) ==
  /\ ~IsOrdered(s)
  /\ pc[s][w] = "put"
  /\ tube' = Put(tube, OutputTubes(s)[oidx[s][w]], << Result(s, task[s][w]), 0 >>)
  /\ hist' = Put(hist, OutputTubes(s)[oidx[s][w]], << Result(s, task[s][w]), 0 >>)
  /\ IF oidx[s][w] < Len(OutputTubes(s))
       THEN /\ oidx' = Set(oidx, s, w, oidx[s][w] + 1)
            /\ UNCHANGED << pc, todo >>
       ELSE /\ oidx' = Set(oidx, s, w, 1)
            /\ todo' = Set(todo, s, w, todo[s][w] - 1)
            /\ pc' = Set(pc, s, w, IF todo[s][w] > 1 THEN "put" ELSE "get")
  /\ UNCHANGED << task, count, lock_input, lock_output, nfail, outside >>

\* ------------------------------------------------------- observations
\* The payloads of a sequence of envelopes.
Payloads(q) == [i \in 1..Len(q) |-> q[i][1]]

IsPrefix(a, b) == Len(a) <= Len(b) /\ \A i \in 1..Len(a) : a[i] = b[i]

\* How many times value v occurs in sequence q.
Occurrences(q, v) == Cardinality({ i \in 1..Len(q) : q[i] = v })

\* Every worker of stage s has left run().
Exited(s) == \A w \in Workers(s) : pc[s][w] = "exit"
AllExited == \A s \in StageIds : Exited(s)

\* Every task returns a result in stage s.
ReturnsResult(s) == stages[s].target = "one"

\* What stage s was sent, mapped through its function: the stop request stays
\* the stop request.
Expected(s) ==
  [i \in 1..Len(hist[InputTube(s)]) |->
     IF hist[InputTube(s)][i][1] = NONE THEN NONE
     ELSE Result(s, hist[InputTube(s)][i][1])]

OutputTubeSet(s) == { OutputTubes(s)[i] : i \in 1..Len(OutputTubes(s)) }

\* ------------------------------------------------------------ claims
\* C1: an ordered stage whose function returns a result for every task puts
\* on each output tube f(x1), ..., f(xk), None in exactly the order the tasks
\* and the stop request were put on its input tube: what is on the tube so far
\* is always a prefix of that, and all of it once the workers have exited.
C1_OrderedStagePreservesOrder ==
  \A s \in StageIds :
    (IsOrdered(s) /\ ReturnsResult(s)) =>
      \A t \in OutputTubeSet(s) :
        /\ IsPrefix(Payloads(hist[t]), Expected(s))
        /\ (stopped /\ Exited(s)) => Payloads(hist[t]) = Expected(s)

\* C1 witness: an ordered stage of at least two workers has published two
\* results and the stop request, and exited.
C1_Witness ==
  /\ NumStages = 1 /\ IsOrdered(1) /\ ReturnsResult(1)
  /\ stages[1].size >= 2
  /\ Exited(1)
  /\ Payloads(hist[TerminalTube(1)]) = << Result(1, 1), Result(1, 2), NONE >>

\* Worker w of stage s waits in a blocking call that cannot return now.
Blocked(s, w) ==
  \/ pc[s][w] = "acquire_input" /\ lock_input[s][w]
  \/ pc[s][w] = "get" /\ ~CanGet(InputTube(s))
  \/ pc[s][w] = "acquire_output" /\ lock_output[s][w]

\* The producer has sent the stop request and no worker can take a step any
\* more: whatever has not happened by now never happens.
Quiescent ==
  /\ stopped
  /\ \A s \in StageIds : \A w \in Workers(s) : pc[s][w] = "exit" \/ Blocked(s, w)

\* At most one stop request on tube t, and nothing after it.
StopIsLast(t) ==
  /\ Occurrences(Payloads(hist[t]), NONE) <= 1
  /\ \A i \in 1..Len(hist[t]) : hist[t][i][1] = NONE => i = Len(hist[t])

\* C2: in a tree-shaped pipeline sent one stop request, every tube fed by a
\* stage receives exactly one None, after every result put on that tube: never
\* more than one and nothing behind it, and one has arrived when the pipeline
\* has come to rest.
C2_ExactlyOneStopPerEdge ==
  \A s \in StageIds : \A t \in OutputTubeSet(s) :
    /\ StopIsLast(t)
    /\ Quiescent => Occurrences(Payloads(hist[t]), NONE) = 1

\* doTask of stage s makes no putResult call of its own: it returns a result
\* or returns None, and so returns whatever the other workers do.
DoTaskReturns(s) == stages[s].target \in {"one", "skipodd"}

\* C3: when every call of doTask returns (with a result or with None), then
\* once the stop request is on the root every worker of every stage
\* eventually exits.
C3_EveryWorkerExits ==
  stopped ~> (AllExited \/ \E s \in StageIds : ~DoTaskReturns(s))

\* C4: an unordered stage whose function returns a result for every task puts
\* every f(xi) on each output tube exactly once and then None: no value twice,
\* nothing that is not an f(xi), nothing behind None, and all of them once the
\* workers have exited.
C4_UnorderedStagePreservesMultiset ==
  \A s \in StageIds :
    (~IsOrdered(s) /\ ReturnsResult(s)) =>
      \A t \in OutputTubeSet(s) :
        /\ StopIsLast(t)
        /\ \A i \in 1..Len(hist[t]) :
             /\ Occurrences(Payloads(hist[t]), hist[t][i][1]) = 1
             /\ Occurrences(Expected(s), hist[t][i][1]) = 1
        /\ (stopped /\ Exited(s)) =>
             /\ Len(hist[t]) = Len(Expected(s))
             /\ hist[t][Len(hist[t])][1] = NONE

\* C4 witness: an unordered stage of at least two workers has published the
\* results of two tasks in the order opposite to the tasks, then None.
C4_Witness ==
  /\ NumStages = 1 /\ ~IsOrdered(1) /\ ReturnsResult(1)
  /\ stages[1].size >= 2
  /\ Exited(1)
  /\ Payloads(hist[TerminalTube(1)]) = << Result(1, 2), Result(1, 1), NONE >>

\* The task of stage s that result r was computed from.
TaskOf(s, r) == (r - 1) \div s

\* C5: an ordered stage whose doTask publishes zero, one or several results
\* per task puts them on each output tube grouped by task, in task order: no
\* result of a later task stands before a result of an earlier one.
C5_ResultsGroupedByTask ==
  \A s \in StageIds :
    IsOrdered(s) =>
      \A t \in OutputTubeSet(s) :
        \A i \in 1..Len(hist[t]) : \A j \in 1..Len(hist[t]) :
          (i < j /\ hist[t][i][1] # NONE /\ hist[t][j][1] # NONE) =>
            TaskOf(s, hist[t][i][1]) <= TaskOf(s, hist[t][j][1])

\* Two histories of one stream: one is the beginning of the other.
Compatible(a, b) == IsPrefix(a, b) \/ IsPrefix(b, a)

\* The same envelopes, each as many times, in any order.
SameEnvelopes(a, b) ==
  /\ Len(a) = Len(b)
  /\ \A i \in 1..Len(a) : Occurrences(a, a[i]) = Occurrences(b, a[i])

\* C6 as stated: all output tubes of a stage with two or more of them, ordered
\* or unordered, receive the same envelopes in the same order.
C6_FanOutSameSequence ==
  \A s \in StageIds : \A t1 \in OutputTubeSet(s) : \A t2 \in OutputTubeSet(s) :
    /\ Compatible(hist[t1], hist[t2])
    /\ Exited(s) => hist[t1] = hist[t2]

\* C6 amended: the output tubes of an ordered stage, and of an unordered stage
\* of one worker, receive the same envelopes in the same order (the stage
\* being built once); the output tubes of an unordered stage of several
\* workers receive the same envelopes, each as many times, once the workers
\* have exited.
C6_FanOutSameSequenceWhenSerialized ==
  \A s \in StageIds : \A t1 \in OutputTubeSet(s) : \A t2 \in OutputTubeSet(s) :
    /\ (build(1, s) = 1 /\ (IsOrdered(s) \/ stages[s].size = 1)) =>
         /\ Compatible(hist[t1], hist[t2])
         /\ Exited(s) => hist[t1] = hist[t2]
    /\ Exited(s) => SameEnvelopes(hist[t1], hist[t2])

\* C6 witness: an ordered root of two workers has put two results and the
\* stop request on both of its output tubes.
C6_Witness ==
  /\ IsOrdered(1) /\ stages[1].size >= 2
  /\ Len(OutputTubes(1)) = 2
  /\ Exited(1)
  /\ hist[OutputTubes(1)[1]] = hist[OutputTubes(1)[2]]
  /\ Payloads(hist[OutputTubes(1)[2]]) = << Result(1, 1), Result(1, 2), NONE >>

\* C7: after the stop request, results() ends after finitely many get()
\* calls and no get() blocks forever: once every worker has exited (nothing
\* will be put any more), an iteration that has not ended finds an item
\* on the tube it reads next.
C7_ResultsEnds ==
  (stopped /\ AllExited /\ ~closed) => CanGet(LeafTubes[cpos])

\* The value a chain of stages starting at s computes for task x.
RECURSIVE ChainResult(_, _)
ChainResult(s, x) ==
  IF stages[s].next_stages = <<>> THEN Result(s, x)
  ELSE ChainResult(stages[s].next_stages[1], Result(s, x))

\* C8: for a chain of ordered stages whose functions return a result for every
\* task, results() yields the composition of the functions applied to
\* x1, ..., xk in input order and then ends: what it has yielded is always a
\* prefix of that, all of it when it ends, and it is never left waiting once
\* the workers have exited.
C8_ChainYieldsComposition ==
  (\A s \in StageIds : IsOrdered(s) /\ ReturnsResult(s)) =>
    /\ IsPrefix(yielded, [i \in 1..nput |-> ChainResult(1, i)])
    /\ closed => (stopped /\ yielded = [i \in 1..nput |-> ChainResult(1, i)])
    /\ (stopped /\ AllExited /\ ~closed) => CanGet(LeafTubes[cpos])

\* C8 witness: a chain of two ordered stages of two workers each has yielded
\* the composed results of two tasks, and results() has ended.
C8_Witness ==
  /\ NumStages = 2
  /\ \A s \in StageIds : IsOrdered(s) /\ ReturnsResult(s) /\ stages[s].size >= 2
  /\ closed
  /\ yielded = << Result(2, Result(1, 1)), Result(2, Result(1, 2)) >>

\* The stages linked to stage s.
Upstream(s) ==
  { u \in StageIds : \E i \in 1..Len(stages[u].next_stages) : stages[u].next_stages[i] = s }

\* The tasks among the envelopes of q.
NumTasks(q) == Cardinality({ i \in 1..Len(q) : q[i][1] # NONE })

\* C9: a stage with two or more upstream stages puts None on each output
\* tube exactly once, and only after every task its upstream stages deliver
\* has been processed and published: never a second None, and when None is
\* on an output tube every upstream stage has exited and the tube holds a
\* result for every task delivered.
C9_FanInStopsOnce ==
  \A s \in StageIds :
    Cardinality(Upstream(s)) >= 2 =>
      \A t \in OutputTubeSet(s) :
        /\ Occurrences(Payloads(hist[t]), NONE) <= 1
        /\ Occurrences(Payloads(hist[t]), NONE) = 1 =>
             /\ \A u \in Upstream(s) : Exited(u)
             /\ NumTasks(hist[t]) = NumTasks(hist[InputTube(s)])

\* C10: a worker whose read of the input tube fails goes through the stop
\* branch with (None, 0) and exits, and the stage is not wedged: when the
\* pipeline has come to rest after a failed read, no worker is left blocked
\* and None is on every output tube.
C10_ReadFailureDoesNotWedge ==
  (nfail > 0 /\ Quiescent) =>
    /\ AllExited
    /\ \A s \in StageIds : \A t \in OutputTubeSet(s) :
         Occurrences(Payloads(hist[t]), NONE) >= 1

\* C11: a get with a timeout on a leaf whose output tube is empty comes back
\* with (false, no value), for a P-tube and for a Q-tube alike: it raises no
\* error and a timed-out get carries no value.
C11_TimedGetTimesOut ==
  /\ timed[1] # "error"
  /\ timed[1] = "timeout" => timed[2] = NONE

\* C12: build is one-shot: however many paths of the graph lead to a stage,
\* the workers started on its input tube never number more than its size.
C12_BuildIsOneShot ==
  \A s \in StageIds : Cardinality(DOMAIN pc[s]) <= stages[s].size

\* C13: a stage of pool size 0 is rejected at construction, so every stage of
\* a built pipeline has a size of at least one and at least one worker.
C13_NoZeroSizeStage ==
  \A s \in StageIds : stages[s].size >= 1 /\ DOMAIN pc[s] # {}

\* The stages reachable from s over the links, s included.
RECURSIVE Descendants(_)
Descendants(s) ==
  {s} \cup UNION { Descendants(stages[s].next_stages[i]) :
                     i \in 1..Len(stages[s].next_stages) }

\* C14: getLeaves on the root returns exactly the stages reachable from the
\* root that have no downstream stage, each of them once.
C14_LeavesOnce ==
  /\ { output_stages[i] : i \in 1..Len(output_stages) }
       = { s \in Descendants(1) : stages[s].next_stages = <<>> }
  /\ \A i, j \in 1..Len(output_stages) : output_stages[i] = output_stages[j] => i = j

\* The workers that are at a put on tube t: publishing a result or the stop
\* request on an output tube, or putting the stop request back on their
\* stage's input tube.
Putters(t) ==
  { sw \in { << s, w >> : s \in StageIds, w \in 0..(MaxWorkers * 2) } :
      /\ sw[2] \in Workers(sw[1])
      /\ \/ /\ pc[sw[1]][sw[2]] \in {"put", "propagate"}
            /\ OutputTubes(sw[1])[oidx[sw[1]][sw[2]]] = t
         \/ /\ pc[sw[1]][sw[2]] = "stop"
            /\ count[sw[1]][sw[2]] + 1 # stages[sw[1]].size
            /\ InputTube(sw[1]) = t }

\* The workers that are at the get on tube t.
Getters(t) ==
  { sw \in { << s, w >> : s \in StageIds, w \in 0..(MaxWorkers * 2) } :
      /\ sw[2] \in Workers(sw[1])
      /\ pc[sw[1]][sw[2]] = "get"
      /\ InputTube(sw[1]) = t }

\* C15: every P-tube has at every moment at most one process at a put on it
\* and at most one process at a get on it.
C15_OneProducerOneConsumer ==
  \A t \in TubeIds :
    TubeClass(t) = "TubeP" =>
      Cardinality(Putters(t)) <= 1 /\ Cardinality(Getters(t)) <= 1

\* How many results stage s owes for the tasks it was sent so far.
ResultsDue(s) ==
  SumSeq([i \in 1..Len(hist[InputTube(s)]) |->
            IF hist[InputTube(s)][i][1] = NONE THEN 0
            ELSE NumResults(stages[s].target, hist[InputTube(s)][i][1])])

\* C16: when a worker's stop aggregation reaches count = N, in an ordered or
\* an unordered stage that is sent one stop request, every other worker of the
\* stage has exited and every result of every task read before the stop
\* request is on all the output tubes already.
C16_LastWorkerPropagates ==
  \A s \in StageIds : \A w \in Workers(s) :
    pc[s][w] = "propagate" =>
      /\ \A v \in Workers(s) \ {w} : pc[s][v] = "exit"
      /\ \A i \in 1..Len(OutputTubes(s)) :
           NumTasks(hist[OutputTubes(s)[i]]) = ResultsDue(s)

\* A stage of two or more workers and two output tubes that owed two results
\* or more has a worker propagating the stop request.
C16_Witness ==
  \E s \in StageIds : \E w \in Workers(s) :
    /\ pc[s][w] = "propagate"
    /\ stages[s].size >= 2
    /\ Len(OutputTubes(s)) = 2
    /\ ResultsDue(s) >= 2

\* The envelopes read from stage s's input tube so far: those put on it by
\* the producer or the upstream stage, and the stop requests its own workers
\* put back, less the ones still on the tube.
Dequeued(s) ==
  Len(hist[InputTube(s)])
  + Cardinality({ w \in Workers(s) : pc[s][w] = "exit" /\ count[s][w] # stages[s].size })
  - Len(tube[InputTube(s)])

\* The workers of stage s between the acquire of _lock_prev_input and the
\* release of _lock_next_input.
Reading(s) == { w \in Workers(s) : pc[s][w] \in {"get", "release_input"} }

\* C17: an ordered stage of N workers reads its input tube in strict
\* round-robin: envelope k (k = 0, 1, ...) is read by worker k mod N, worker 0
\* first, and never two workers are between acquiring the previous-input
\* token and releasing the next-input token.
C17_RoundRobinRead ==
  \A s \in StageIds :
    IsOrdered(s) =>
      /\ Cardinality(Reading(s)) <= 1
      /\ \A w \in Workers(s) :
           /\ pc[s][w] = "get" => RingIndex(s, w) = Dequeued(s) % stages[s].size
           /\ pc[s][w] = "release_input" =>
                RingIndex(s, w) = (Dequeued(s) - 1) % stages[s].size

\* In a stage of three workers, worker 0 has read the fourth envelope (the
\* stop request after two tasks, put back by worker 2).
C17_Witness ==
  \E s \in StageIds :
    /\ IsOrdered(s)
    /\ stages[s].size = 3
    /\ Dequeued(s) = 4
    /\ pc[s][0] = "release_input"

\* The workers of stage s whose _lock_prev_input is released.
FreeInput(s) == { w \in Workers(s) : ~lock_input[s][w] }

\* C18: the ordered protocol does not serialize computation.  The input token
\* of an ordered stage is either a released lock or with the one worker that
\* is reading; no worker keeps it while it runs the user transform, so with N
\* tasks on the input all N workers can be in the transform at once (the
\* state C18_Witness).
C18_ComputationNotSerialized ==
  \A s \in StageIds :
    IsOrdered(s) => Cardinality(FreeInput(s)) + Cardinality(Reading(s)) = 1

\* Every worker of an ordered stage of two or more workers is in doTask.
C18_Witness ==
  \E s \in StageIds :
    /\ IsOrdered(s)
    /\ stages[s].size >= 2
    /\ \A w \in Workers(s) : pc[s][w] = "doTask"

\* The workers of stage s whose _lock_prev_output is released.
FreeOutput(s) == { w \in Workers(s) : ~lock_output[s][w] }

\* C19: in an ordered stage whose transform returns a result for every task,
\* every token of the input ring and of the output ring alternates between
\* released and held: a worker at the release of its next-input or
\* next-output lock finds that lock held, never released already, and each
\* ring has at most one released lock.
C19_TokensAlternate ==
  \A s \in StageIds :
    (IsOrdered(s) /\ ReturnsResult(s)) =>
      /\ \A w \in Workers(s) :
           /\ pc[s][w] = "release_input" => lock_input[s][NextWorker(s, w)]
           /\ pc[s][w] = "release_output" => lock_output[s][NextWorker(s, w)]
      /\ Cardinality(FreeInput(s)) <= 1
      /\ Cardinality(FreeOutput(s)) <= 1

\* The last worker of a ring of two or more is at the release of worker 0's
\* output lock, in the round of the stage's second task or later.
C19_Witness ==
  \E s \in StageIds : \E w \in Workers(s) :
    /\ IsOrdered(s) /\ ReturnsResult(s)
    /\ stages[s].size >= 2
    /\ NextWorker(s, w) = 0
    /\ pc[s][w] = "release_output"
    /\ lock_output[s][0]
    /\ NumTasks(hist[OutputTubes(s)[1]]) >= 2

\* The positions on stage s's input tube that hold a stop request.
NoneOnTube(s) ==
  { i \in 1..Len(tube[InputTube(s)]) : tube[InputTube(s)][i][1] = NONE }

\* The workers of stage s that have read a stop request and not yet put it
\* back or taken it as the last one.
NoneHolders(s) ==
  { w \in Workers(s) : \/ pc[s][w] = "stop"
                       \/ pc[s][w] = "release_input" /\ task[s][w] = NONE }

\* The workers of stage s that have left run.
NumExited(s) == Cardinality({ w \in Workers(s) : pc[s][w] = "exit" })

\* C20: in a stage of a tree-shaped pipeline that is sent one stop request
\* there is at most one stop request at any time, on the input tube or with a
\* worker that has read it, and its count is the number of workers of the
\* stage that have exited: between 0 and N - 1.
C20_OneStopRequestPerStage ==
  \A s \in StageIds :
    /\ Cardinality(NoneOnTube(s)) + Cardinality(NoneHolders(s)) <= 1
    /\ \A i \in NoneOnTube(s) :
         /\ tube[InputTube(s)][i][2] = NumExited(s)
         /\ tube[InputTube(s)][i][2] \in 0..(stages[s].size - 1)
    /\ \A w \in NoneHolders(s) : count[s][w] = NumExited(s)

\* The stop request is on the input tube of a stage of three workers with
\* count 2, after two of them have exited.
C20_Witness ==
  \E s \in StageIds : \E i \in NoneOnTube(s) :
    /\ stages[s].size = 3
    /\ tube[InputTube(s)][i][2] = 2
    /\ NumExited(s) = 2

\* ------------------------------------------------------ specification
\* One step of ordered worker w of stage s, every read succeeding.
OrderedWorker_run(s, w) ==
  \/ OrderedWorker_acquire_input(s, w)
  \/ OrderedWorker_get(s, w)
  \/ OrderedWorker_release_input(s, w)
  \/ OrderedWorker_stop(s, w)
  \/ OrderedWorker_propagate(s, w)
  \/ OrderedWorker_doTask(s, w)
  \/ OrderedWorker_putResult_acquire(s, w)
  \/ OrderedWorker_putResult_put(s, w)
  \/ OrderedWorker_putResult_release(s, w)

\* One step of unordered worker w of stage s, every read succeeding.
UnorderedWorker_run(s, w) ==
  \/ UnorderedWorker_get(s, w)
  \/ UnorderedWorker_stop(s, w)
  \/ UnorderedWorker_propagate(s, w)
  \/ UnorderedWorker_doTask(s, w)
  \/ UnorderedWorker_putResult_put(s, w)

\* Some worker of the pipeline takes a step.
WorkersNext ==
  \E s \in StageIds : \E w \in Workers(s) :
    OrderedWorker_run(s, w) \/ UnorderedWorker_run(s, w)

\* Some worker's read of its input tube fails.
WorkersFail ==
  \E s \in StageIds : \E w \in Workers(s) :
    OrderedWorker_get_fails(s, w) \/ UnorderedWorker_get_fails(s, w)

Producer == PipelinePut \/ PipelineStop

Next == Producer \/ PipelineGet \/ WorkersNext

NextOrdered ==
  \/ Producer
  \/ PipelineGet
  \/ \E s \in StageIds : \E w \in Workers(s) : OrderedWorker_run(s, w)

NextUnordered ==
  \/ Producer
  \/ PipelineGet
  \/ \E s \in StageIds : \E w \in Workers(s) : UnorderedWorker_run(s, w)

NextWorkers == Producer \/ WorkersNext

NextFail == Producer \/ WorkersNext \/ WorkersFail

\* Every tree-shaped pipeline with its producer and its consumer.
Spec == InitWith(TreePipelines) /\ [][Next]_vars

\* The same, every worker process being scheduled as long as it can run.
FairSpec == Spec /\ WF_vars(WorkersNext)

\* Ordered stages, alone and in a chain.
SpecOrdered == InitWith(OrderedPipelines) /\ [][NextOrdered]_vars

\* One unordered stage.
SpecUnordered == InitWith(UnorderedPipelines) /\ [][NextUnordered]_vars

\* A stage with two output tubes.
SpecFanOut == InitWith(FanOutPipelines) /\ [][NextWorkers]_vars

\* One stage whose workers' reads may fail.
SpecFail == InitWith(StagePipelines) /\ [][NextFail]_vars

\* A stage with two upstream stages.
SpecDiamond == InitWith(DiamondPipelines) /\ [][NextWorkers]_vars

SpecZeroSize == InitWith(ZeroSizePipelines) /\ [][NextWorkers]_vars

SpecStage == InitWith(StagePipelines \cup FanOutPipelines) /\ [][NextWorkers]_vars

NextTimeout == Producer \/ WorkersNext \/ PipelineGetTimeout
SpecTimeout == InitWith(StagePipelines) /\ [][NextTimeout]_vars

====
